---- MODULE Spec2Model ----
(***************************************************************************)
(* A model of ml_core.linear_models.linear_regression.LinearRegression:    *)
(* the attributes of one estimator instance, fit, predict and the          *)
(* diagnostics that read the fitted attributes.                            *)
(*                                                                         *)
(* Numbers.  numpy computes over doubles.  The model computes over exact   *)
(* rationals extended with +inf, -inf and NaN (a division by zero of a    *)
(* numpy float64 yields inf or NaN, it does not raise), so the formulas    *)
(* are evaluated as written in the source, without rounding.  A square     *)
(* root is kept symbolic.                                                  *)
(*                                                                         *)
(* Optional attributes.  None is the empty tuple, a set value v is <<v>>. *)
(* x_ and y_ are not created by __init__: before the first fit they are    *)
(* missing attributes, which is the same empty tuple here; reading them    *)
(* in that state raises AttributeError.                                    *)
(***************************************************************************)
EXTENDS Integers, Sequences, FiniteSets, TLC

\* ---------------------------------------------------------------- bounds
\* Largest number of rows of an input matrix.
MaxRows == 4
\* Largest number of predictor columns of an input matrix.
MaxPredictors == 2

\* ------------------------------------------------------------- rationals
Abs(n) == IF n < 0 THEN -n ELSE n

Sign(n) == IF n < 0 THEN -1 ELSE IF n > 0 THEN 1 ELSE 0

RECURSIVE Gcd(_, _)
Gcd(a, b) == IF b = 0 THEN a ELSE Gcd(b, a % b)

\* A float: n/d in lowest terms with d > 0; d = 0 is +inf (n = 1),
\* -inf (n = -1) or NaN (n = 0).
Norm(n, d) ==
    IF d = 0 THEN [n |-> Sign(n), d |-> 0]
    ELSE LET g == Gcd(Abs(n), Abs(d))
             s == Sign(d)
         IN [n |-> (s * n) \div g, d |-> (s * d) \div g]

Q(i) == [n |-> i, d |-> 1]

NaN == [n |-> 0, d |-> 0]

IsNaN(a) == a.n = 0 /\ a.d = 0

IsFinite(a) == a.d # 0

QAdd(a, b) ==
    IF a.d = 0 /\ b.d = 0 THEN (IF a = b THEN a ELSE NaN)
    ELSE Norm(a.n * b.d + b.n * a.d, a.d * b.d)

QNeg(a) == [n |-> -a.n, d |-> a.d]

QSub(a, b) == QAdd(a, QNeg(b))

QMul(a, b) == Norm(a.n * b.n, a.d * b.d)

QDiv(a, b) == Norm(a.n * b.d, a.d * b.n)

\* a <= b as IEEE compares: false when either side is NaN.
QLeq(a, b) ==
    IF IsNaN(a) \/ IsNaN(b) THEN FALSE
    ELSE IF a.d = 0 /\ b.d = 0 THEN a.n <= b.n
    ELSE a.n * b.d <= b.n * a.d

QLess(a, b) == QLeq(a, b) /\ a # b

\* ------------------------------------------------- vectors and matrices
\* A vector is a sequence of floats; a matrix is a non-empty sequence of
\* rows of equal length (a matrix of width 0 is a sequence of empty rows).
\* Tup makes a sequence given as a function an explicit tuple.
Tup(f) == f \o <<>>

NRows(M) == Len(M)

NCols(M) == Len(M[1])

RECURSIVE QSum(_)
QSum(v) == IF v = <<>> THEN Q(0) ELSE QAdd(v[1], QSum(Tail(v)))

QVec(v) == Tup([i \in 1..Len(v) |-> Q(v[i])])

QMat(M) == Tup([i \in 1..Len(M) |-> QVec(M[i])])

Dot(u, v) == QSum(Tup([i \in 1..Len(u) |-> QMul(u[i], v[i])]))

Transpose(M) ==
    Tup([j \in 1..NCols(M) |-> Tup([i \in 1..NRows(M) |-> M[i][j]])])

\* A @ B for matrices of matching inner dimension.
MatMul(A, B) ==
    Tup([i \in 1..NRows(A) |-> Tup([j \in 1..NCols(B) |->
        QSum(Tup([k \in 1..NCols(A) |-> QMul(A[i][k], B[k][j])]))])])

\* M @ v for a matrix and a vector.
MatVec(M, v) == Tup([i \in 1..NRows(M) |-> Dot(M[i], v)])

Minor(M, r, c) ==
    LET n == Len(M)
    IN Tup([i \in 1..(n - 1) |-> Tup([j \in 1..(n - 1) |->
           M[IF i < r THEN i ELSE i + 1][IF j < c THEN j ELSE j + 1]])])

RECURSIVE Det(_)
Det(M) ==
    IF Len(M) = 1 THEN M[1][1]
    ELSE QSum(Tup([j \in 1..Len(M) |->
             QMul(QMul(Q(IF j % 2 = 1 THEN 1 ELSE -1), M[1][j]),
                  Det(Minor(M, 1, j)))]))

\* np.linalg.inv of a square matrix of non-zero determinant.
Inverse(M) ==
    LET n == Len(M)
        dt == Det(M)
    IN IF n = 1 THEN << <<QDiv(Q(1), dt)>> >>
       ELSE Tup([i \in 1..n |-> Tup([j \in 1..n |->
                QDiv(QMul(Q(IF (i + j) % 2 = 0 THEN 1 ELSE -1),
                          Det(Minor(M, j, i))), dt)])])

\* ---------------------------------------------------------------- inputs
\* The arrays a caller passes are built from column shapes over the row
\* index i: shape 0 is the constant 1, shape 1 the ramp i, shape 2 the
\* alternation i mod 2, shape j >= 3 the step that rises at row j.  The
\* ones, the ramp, the alternation and the steps are linearly independent
\* once there are enough rows; a constant column repeats the column of
\* ones that fit prepends and makes X^T X singular.
Entry(j, i) ==
    IF j = 0 THEN 1
    ELSE IF j = 1 THEN i
    ELSE IF j = 2 THEN i % 2
    ELSE IF i >= j THEN 1 ELSE 0

Column(j, n) == Tup([i \in 1..n |-> Entry(j, i)])

\* A numpy array: ndim 2 holds its rows in d; ndim 1 holds its elements
\* as the single row d[1].
\* The n x p array of the shapes 1..p, its last column replaced by the
\* constant when repeated is true.
Array2(n, p, repeated) ==
    [ndim |-> 2,
     d |-> Tup([i \in 1..n |-> Tup([j \in 1..p |->
               Entry(IF repeated /\ j = p THEN 0 ELSE j, i)])])]

Array1(n, j) == [ndim |-> 1, d |-> <<Column(j, n)>>]

InputMatrices ==
    {Array2(n, p, FALSE) : n \in 1..MaxRows, p \in 0..MaxPredictors}
        \cup {Array2(n, p, TRUE) : n \in 1..MaxRows, p \in 1..MaxPredictors}
        \cup {Array1(n, j) : n \in 1..MaxRows, j \in {0, 1}}

\* shape[0] of an array.
Shape0(X) == IF X.ndim = 1 THEN Len(X.d[1]) ELSE Len(X.d)

\* The response vectors of the length of X (the caller's contract): the
\* alternation and the step at row 3 (a constant when X has two rows).
InputVectors(X) == {Column(j, Shape0(X)) : j \in {2, 3}}

\* ----------------------------------------------------------------- state
VARIABLES
    x_,                  \* self.x_ : the augmented matrix of the last fit call
    y_,                  \* self.y_
    betas_,              \* self.betas_
    intercept_,          \* self.intercept_
    coef_,               \* self.coef_
    degrees_of_freedom,  \* self.degrees_of_freedom
    num_predictors,      \* self.num_predictors
    trained,             \* self.trained
    ret,                 \* the call that has just returned, or Idle
    memo                 \* an earlier successful fit, as its caller saw it

attrs == <<x_, y_, betas_, intercept_, coef_, degrees_of_freedom,
           num_predictors, trained>>

vars == <<x_, y_, betas_, intercept_, coef_, degrees_of_freedom,
          num_predictors, trained, ret, memo>>

None == <<>>

Some(v) == <<v>>

\* The outcome of evaluating an expression: err is "none" or the
\* exception raised, v holds the value.
Ok(v) == [err |-> "none", v |-> Some(v)]

Err(e) == [err |-> e, v |-> None]

\* What the caller sees of a call: the operation, its arguments, the
\* outcome, and the steps of the call that the outcome does not show.
Call(op, arg, r, trace) ==
    [op |-> op, arg |-> arg, err |-> r.err, v |-> r.v, trace |-> trace]

\* No call has returned a result the caller still holds.
Idle == [op |-> "idle", arg |-> <<>>, err |-> "none", v |-> None,
         trace |-> <<>>]

DofMessage == "ValueError: Degrees of freedom must be greater than 0."

SingularMessage == "ValueError: Matrix is not invertible."

\* x_array @ None: numpy refuses the operand (a TypeError or a ValueError,
\* by version).
NoneOperand == "TypeError: unsupported operand type(s) for @"

NoneIterable == "TypeError: 'NoneType' object is not iterable"

NoneDivisor == "TypeError: unsupported operand type(s) for /"

MissingAttribute == "AttributeError: object has no attribute"

TupleIndex == "IndexError: tuple index out of range"

ShapeMismatch == "ValueError: matmul: mismatch in core dimension"

Broadcast == "ValueError: operands could not be broadcast together"

SingularInverse == "LinAlgError: Singular matrix"

\* ------------------------------------------------------- normalization
IncludeInterceptColumn(M) == Tup([i \in 1..Len(M) |-> <<1>> \o M[i]])

\* x_copy.reshape(-1, 1) for a 1-D array, then the column of ones.
PreprocessInputMatrix(X) ==
    LET x_copy == IF X.ndim = 1
                  THEN Tup([i \in 1..Len(X.d[1]) |-> <<X.d[1][i]>>])
                  ELSE X.d
    IN IncludeInterceptColumn(x_copy)

PreprocessInputVector(y) == y

\* ml_core.core_components.linalg.is_invertible_svd: the smallest singular
\* value is above max(singular values) * n * eps.  Over exact arithmetic
\* a square matrix has a zero singular value exactly when its determinant
\* is zero.
IsInvertibleSvd(M) == Det(M) # Q(0)

\* X.T @ X
Gram(M) == MatMul(Transpose(QMat(M)), QMat(M))

\* np.linalg.inv(X.T @ X) @ X.T @ y
NormalEquations(Xa, ya) ==
    MatVec(MatMul(Inverse(Gram(Xa)), Transpose(QMat(Xa))), QVec(ya))

\* ------------------------------------------------------------------- fit
\* self.betas_ = betas; self.intercept_ = self.betas_[0];
\* self.coef_ = self.betas_[1:]; self.trained = True
Solved(assigned, betas) ==
    [assigned EXCEPT !.betas_ = Some(betas),
                     !.intercept_ = Some(betas[1]),
                     !.coef_ = Some(Tail(betas)),
                     !.trained = Some(TRUE)]

\* fit with the invertibility check moved before the degrees-of-freedom
\* check.
FitResultInvertibilityFirst(X, y) ==
    LET Xa == PreprocessInputMatrix(X)
        ya == PreprocessInputVector(y)
        dof == NRows(Xa) - NCols(Xa)
        early == [x_ |-> Some(Xa), y_ |-> Some(ya),
                  degrees_of_freedom |-> None, num_predictors |-> None,
                  betas_ |-> None, intercept_ |-> None, coef_ |-> None,
                  trained |-> None]
        mid == [early EXCEPT !.degrees_of_freedom = Some(dof),
                             !.num_predictors = Some(NCols(Xa) - 1)]
    IN IF ~IsInvertibleSvd(Gram(Xa))
       THEN [set |-> early, err |-> SingularMessage,
             trace |-> <<"check_is_matrix_invertible">>]
       ELSE IF dof <= 0
       THEN [set |-> early, err |-> DofMessage,
             trace |-> <<"check_is_matrix_invertible",
                         "check_degrees_of_freedom">>]
       ELSE [set |-> Solved(mid, NormalEquations(Xa, ya)),
             err |-> "none",
             trace |-> <<"check_is_matrix_invertible",
                         "check_degrees_of_freedom", "inv">>]

\* What fit(X, y) assigns and how it ends.  A field of set that is None
\* was not assigned by the call; trace lists the checks and the inversion
\* in the order the call ran them.
FitResult(X, y) ==
    LET Xa == PreprocessInputMatrix(X)
        ya == PreprocessInputVector(y)
        dof == NRows(Xa) - NCols(Xa)
        early == [x_ |-> Some(Xa), y_ |-> Some(ya),
                  degrees_of_freedom |-> None, num_predictors |-> None,
                  betas_ |-> None, intercept_ |-> None, coef_ |-> None,
                  trained |-> None]
        mid == [early EXCEPT !.degrees_of_freedom = Some(dof),
                             !.num_predictors = Some(NCols(Xa) - 1)]
    IN IF dof <= 0
       THEN [set |-> early, err |-> DofMessage,
             trace |-> <<"check_degrees_of_freedom">>]
       ELSE IF ~IsInvertibleSvd(Gram(Xa))
       THEN [set |-> mid, err |-> SingularMessage,
             trace |-> <<"check_degrees_of_freedom",
                         "check_is_matrix_invertible">>]
       ELSE [set |-> Solved(mid, NormalEquations(Xa, ya)),
             err |-> "none",
             trace |-> <<"check_degrees_of_freedom",
                         "check_is_matrix_invertible", "inv">>]

\* The calls fit(X, y) a caller makes.
FitInputs == UNION {{<<X, y>> : y \in InputVectors(X)} : X \in InputMatrices}

\* FitResult over FitInputs, evaluated once (@@ makes the function explicit).
FitTable == [in \in FitInputs |-> FitResult(in[1], in[2])] @@ <<>>

Assign(old, new) == IF new = None THEN old ELSE new

\* fit that returns at once on an estimator that is already trained.
FitSkipsWhenTrained(X, y) ==
    LET r == FitTable[<<X, y>>]
    IN /\ ret = Idle
       /\ x_' = IF trained THEN x_ ELSE Assign(x_, r.set.x_)
       /\ y_' = IF trained THEN y_ ELSE Assign(y_, r.set.y_)
       /\ degrees_of_freedom' =
              IF trained THEN degrees_of_freedom
              ELSE Assign(degrees_of_freedom, r.set.degrees_of_freedom)
       /\ num_predictors' =
              IF trained THEN num_predictors
              ELSE Assign(num_predictors, r.set.num_predictors)
       /\ betas_' = IF trained THEN betas_ ELSE Assign(betas_, r.set.betas_)
       /\ intercept_' =
              IF trained THEN intercept_
              ELSE Assign(intercept_, r.set.intercept_)
       /\ coef_' = IF trained THEN coef_ ELSE Assign(coef_, r.set.coef_)
       /\ trained' = IF r.set.trained = None THEN trained ELSE TRUE
       /\ ret' = [op |-> "fit", arg |-> <<X, y>>, err |-> r.err,
                  v |-> None, trace |-> r.trace]
       /\ UNCHANGED memo

\* fit(X, y)
Fit(X, y) ==
    LET r == FitTable[<<X, y>>]
    IN /\ ret = Idle
       /\ x_' = Assign(x_, r.set.x_)
       /\ y_' = Assign(y_, r.set.y_)
       /\ degrees_of_freedom' =
              Assign(degrees_of_freedom, r.set.degrees_of_freedom)
       /\ num_predictors' = Assign(num_predictors, r.set.num_predictors)
       /\ betas_' = Assign(betas_, r.set.betas_)
       /\ intercept_' = Assign(intercept_, r.set.intercept_)
       /\ coef_' = Assign(coef_, r.set.coef_)
       /\ trained' = IF r.set.trained = None THEN trained ELSE TRUE
       /\ ret' = [op |-> "fit", arg |-> <<X, y>>, err |-> r.err,
                  v |-> None, trace |-> r.trace]
       /\ UNCHANGED memo

\* --------------------------------------------------------------- predict
\* An exception of r propagates; otherwise the computation goes on with
\* the value of r.
Then(r, F(_)) == IF r.err = "none" THEN F(r.v[1]) ELSE r

\* The check with the width compared to the length of coef_.
CheckAgainstCoef(X) ==
    IF X.ndim = 1 THEN Err(TupleIndex)
    ELSE Ok(NCols(X.d) # (IF coef_ # None THEN Len(coef_[1]) ELSE 0))

\* _check_preprocess_is_needed(X): X.shape[1] of a 1-D array raises.
CheckPreprocessIsNeeded(X) ==
    IF X.ndim = 1 THEN Err(TupleIndex)
    ELSE Ok(NCols(X.d) # (IF betas_ # None THEN Len(betas_[1]) ELSE 0))

\* _preprocess_input_mat_if_needed(X): the matrix predict multiplies.
PreprocessInputMatIfNeeded(X) ==
    Then(CheckPreprocessIsNeeded(X),
         LAMBDA needed : Ok(IF needed THEN PreprocessInputMatrix(X) ELSE X.d))

\* x_array @ self.betas_
MatmulBetas(x_array) ==
    IF betas_ = None THEN Err(NoneOperand)
    ELSE IF NCols(x_array) # Len(betas_[1]) THEN Err(ShapeMismatch)
    ELSE Ok(MatVec(QMat(x_array), betas_[1]))

\* predict(X)
Predict(X) == Then(PreprocessInputMatIfNeeded(X), MatmulBetas)

\* The steps of predict(X) its result does not show: whether the column
\* of ones was prepended, and the width of the matrix multiplied.
PredictTrace(X) ==
    IF CheckPreprocessIsNeeded(X).err # "none" THEN <<>>
    ELSE <<IF CheckPreprocessIsNeeded(X).v[1] THEN "preprocess" ELSE "as_is",
           NCols(PreprocessInputMatIfNeeded(X).v[1])>>

\* self.x_ as the argument of predict.
StoredX == [ndim |-> 2, d |-> x_[1]]

\* ----------------------------------------------------------- diagnostics
QSquare(a) == QMul(a, a)

QMean(v) == QDiv(QSum(v), Q(Len(v)))

\* np.sum(np.square(u - v))
SumSquaredDifference(u, v) ==
    QSum(Tup([i \in 1..Len(u) |-> QSquare(QSub(u[i], v[i]))]))

\* np.sum(np.square(v - m)) for a scalar m
SumSquaredDeviation(v, m) ==
    QSum(Tup([i \in 1..Len(v) |-> QSquare(QSub(v[i], m))]))

\* _compute_total_sum_squares(y_true)
ComputeTotalSumSquares(y_true) ==
    SumSquaredDeviation(QVec(PreprocessInputVector(y_true)),
                        QMean(QVec(PreprocessInputVector(y_true))))

\* _compute_sum_squared_residuals(y_pred, y_true)
ComputeSumSquaredResiduals(y_pred, y_true) ==
    SumSquaredDifference(QVec(y_true), y_pred)

\* y_true_vec - y_pred
Difference(u, v) == Tup([i \in 1..Len(u) |-> QSub(u[i], v[i])])

\* get_residuals(): self.y_ is read before self.x_.
GetResiduals ==
    IF y_ = None THEN Err(MissingAttribute)
    ELSE Then(Predict(StoredX),
              LAMBDA y_pred :
                  Ok(Difference(QVec(PreprocessInputVector(y_[1])), y_pred)))

\* The sums compute_r_squared and compute_f_statistic start from: y_pred,
\* sst, ssr in the order of the source.
SstAndSsr ==
    IF x_ = None THEN Err(MissingAttribute)
    ELSE Then(Predict(StoredX),
              LAMBDA y_pred :
                  Ok([sst |-> ComputeTotalSumSquares(y_[1]),
                      ssr |-> ComputeSumSquaredResiduals(y_pred, y_[1])]))

\* compute_r_squared(): 1 - ssr / sst
ComputeRSquared ==
    Then(SstAndSsr, LAMBDA s : Ok(QSub(Q(1), QDiv(s.ssr, s.sst))))

\* 1 - (1 - r_squared) * self.num_predictors / self.degrees_of_freedom
AdjustedFormula(r_squared) ==
    Ok(QSub(Q(1), QDiv(QMul(QSub(Q(1), r_squared), Q(num_predictors[1])),
                       Q(degrees_of_freedom[1]))))

\* compute_adjusted_r_squared()
ComputeAdjustedRSquared == Then(ComputeRSquared, AdjustedFormula)

\* (sst - ssr) * degrees_of_freedom / (num_predictors * ssr)
FFormula(s) ==
    Ok(QDiv(QMul(QSub(s.sst, s.ssr), Q(degrees_of_freedom[1])),
            QMul(Q(num_predictors[1]), s.ssr)))

\* compute_f_statistic()
ComputeFStatistic == Then(SstAndSsr, FFormula)

\* np.sum(np.square(residuals)) / self.degrees_of_freedom
VarianceFormula(residuals) ==
    IF degrees_of_freedom = None THEN Err(NoneDivisor)
    ELSE Ok(QDiv(QSum(Tup([i \in 1..Len(residuals) |->
                          QSquare(residuals[i])])),
                 Q(degrees_of_freedom[1])))

\* _get_residuals_variance()
GetResidualsVariance == Then(GetResiduals, VarianceFormula)

Scale(a, M) ==
    Tup([i \in 1..Len(M) |-> Tup([j \in 1..Len(M[i]) |-> QMul(a, M[i][j])])])

\* residuals_variance * np.linalg.inv(xtx)
CovarianceFormula(residuals_variance, xtx) ==
    IF Det(xtx) = Q(0) THEN Err(SingularInverse)
    ELSE Ok(Scale(residuals_variance, Inverse(xtx)))

\* _compute_covariance_matrix()
ComputeCovarianceMatrix ==
    Then(GetResidualsVariance,
         LAMBDA residuals_variance :
             CovarianceFormula(residuals_variance, Gram(x_[1])))

\* np.sqrt(a): the root is kept as its radicand.
Sqrt(a) == [rad |-> a]

\* np.sqrt(np.diag(covariance_matrix))
SqrtDiag(M) == Ok(Tup([i \in 1..Len(M) |-> Sqrt(M[i][i])]))

\* compute_standard_errors()
ComputeStandardErrors == Then(ComputeCovarianceMatrix, SqrtDiag)

\* b / se, elementwise; an array of one element is broadcast.
ElementwiseQuotient(b, se) ==
    IF Len(se) = Len(b)
    THEN Ok(Tup([i \in 1..Len(b) |-> [num |-> b[i], den |-> se[i]]]))
    ELSE IF Len(se) = 1
    THEN Ok(Tup([i \in 1..Len(b) |-> [num |-> b[i], den |-> se[1]]]))
    ELSE IF Len(b) = 1
    THEN Ok(Tup([i \in 1..Len(se) |-> [num |-> b[1], den |-> se[i]]]))
    ELSE Err(Broadcast)

\* compute_t_statistics(): self.betas_ / standard_errors
ComputeTStatistics ==
    Then(ComputeStandardErrors,
         LAMBDA standard_errors :
             ElementwiseQuotient(betas_[1], standard_errors))

\* np.std(v)
Std(v) == Ok(Sqrt(QDiv(SumSquaredDeviation(v, QMean(v)), Q(Len(v)))))

\* get_residual_standard_error()
GetResidualStandardError == Then(GetResiduals, Std)

RECURSIVE Insert(_, _)
Insert(a, s) ==
    IF s = <<>> THEN <<a>>
    ELSE IF QLeq(a, s[1]) THEN <<a>> \o s
    ELSE <<s[1]>> \o Insert(a, Tail(s))

RECURSIVE Sorted(_)
Sorted(v) == IF v = <<>> THEN <<>> ELSE Insert(v[1], Sorted(Tail(v)))

\* The q-th percentile of the sorted s: linear interpolation between the
\* order statistics (np.percentile, and np.median for q = 50).
Interpolate(s, q) ==
    IF ((Len(s) - 1) * q) % 100 = 0
    THEN s[((Len(s) - 1) * q) \div 100 + 1]
    ELSE QAdd(s[((Len(s) - 1) * q) \div 100 + 1],
              QMul(Norm(((Len(s) - 1) * q) % 100, 100),
                   QSub(s[((Len(s) - 1) * q) \div 100 + 2],
                        s[((Len(s) - 1) * q) \div 100 + 1])))

SummaryOfSorted(s) ==
    Ok([min |-> s[1], q1 |-> Interpolate(s, 25), median |-> Interpolate(s, 50),
        q3 |-> Interpolate(s, 75), max |-> s[Len(s)]])

\* {min, 1Q, median, 3Q, max} of the residuals
Summary(residuals) == SummaryOfSorted(Sorted(residuals))

\* get_residuals_summary_stats()
GetResidualsSummaryStats == Then(GetResiduals, Summary)

\* str(n) for n >= 0
Digit == <<"0", "1", "2", "3", "4", "5", "6", "7", "8", "9">>

RECURSIVE Decimal(_)
Decimal(n) ==
    IF n < 10 THEN Digit[n + 1]
    ELSE Decimal(n \div 10) \o Digit[(n % 10) + 1]

\* The key numbered by the index itself.
ParamKeyFromZero(i) == "beta_x_" \o Decimal(i)

\* f"beta_x_{i + 1}" for the index i of enumerate, which starts at 0
ParamKey(i) == "beta_x_" \o Decimal(i + 1)

\* get_params(): the comprehension over enumerate(self.coef_) (a later
\* item of a dict replaces an earlier one of the same key), then
\* params_dict["intercept"].
GetParams ==
    IF coef_ = None THEN Err(NoneIterable)
    ELSE LET c == coef_[1]
             keys == {ParamKey(i) : i \in 0..(Len(c) - 1)}
             last(k) == CHOOSE i \in 0..(Len(c) - 1) :
                           /\ ParamKey(i) = k
                           /\ \A j \in 0..(Len(c) - 1) :
                                 ParamKey(j) = k => j <= i
             params_dict == [k \in keys |-> c[last(k) + 1]]
         IN Ok(("intercept" :> intercept_[1]) @@ params_dict)

\* The operations that take no argument and read the fitted attributes.
DiagnosticOps ==
    {"get_residuals", "compute_r_squared", "compute_adjusted_r_squared",
     "compute_f_statistic", "compute_standard_errors",
     "compute_t_statistics", "get_residual_standard_error",
     "get_residuals_summary_stats", "get_params",
     "_get_residuals_variance", "_compute_covariance_matrix"}

Outcome(op) ==
    CASE op = "get_residuals" -> GetResiduals
      [] op = "compute_r_squared" -> ComputeRSquared
      [] op = "compute_adjusted_r_squared" -> ComputeAdjustedRSquared
      [] op = "compute_f_statistic" -> ComputeFStatistic
      [] op = "compute_standard_errors" -> ComputeStandardErrors
      [] op = "compute_t_statistics" -> ComputeTStatistics
      [] op = "get_residual_standard_error" -> GetResidualStandardError
      [] op = "get_residuals_summary_stats" -> GetResidualsSummaryStats
      [] op = "get_params" -> GetParams
      [] op = "_get_residuals_variance" -> GetResidualsVariance
      [] op = "_compute_covariance_matrix" -> ComputeCovarianceMatrix

\* A call of a diagnostic: it assigns no attribute.
Diagnostic(op) ==
    /\ ret = Idle
    /\ ret' = Call(op, <<>>, Outcome(op), <<>>)
    /\ UNCHANGED <<attrs, memo>>

\* The arrays a caller passes to predict: those it passes to fit, and the
\* stored training matrix.
PredictInputs == InputMatrices \cup (IF x_ = None THEN {} ELSE {StoredX})

\* predict that keeps the matrix it multiplied in self.x_.
PredictCallStoresMatrix(X) ==
    /\ ret = Idle
    /\ ret' = Call("predict", <<X>>, Predict(X), PredictTrace(X))
    /\ x_' = IF PreprocessInputMatIfNeeded(X).err = "none"
             THEN PreprocessInputMatIfNeeded(X).v
             ELSE x_
    /\ UNCHANGED <<y_, betas_, intercept_, coef_, degrees_of_freedom,
                   num_predictors, trained, memo>>

\* A call of predict(X): it assigns no attribute.
PredictCall(X) ==
    /\ ret = Idle
    /\ ret' = Call("predict", <<X>>, Predict(X), PredictTrace(X))
    /\ UNCHANGED <<attrs, memo>>

\* A call of _check_preprocess_is_needed(X).
CheckCall(X) ==
    /\ ret = Idle
    /\ ret' = Call("_check_preprocess_is_needed", <<X>>,
                   CheckPreprocessIsNeeded(X), <<>>)
    /\ UNCHANGED <<attrs, memo>>

\* LinearRegression(): a new instance; what a caller remembered stays.
NewInstance ==
    /\ ret = Idle
    /\ x_' = None
    /\ y_' = None
    /\ betas_' = None
    /\ intercept_' = None
    /\ coef_' = None
    /\ degrees_of_freedom' = None
    /\ num_predictors' = None
    /\ trained' = FALSE
    /\ UNCHANGED <<ret, memo>>

\* The caller has taken the result of the call that returned.
Return ==
    /\ ret # Idle
    /\ ret' = Idle
    /\ UNCHANGED <<attrs, memo>>

\* The caller has taken the result of a successful fit and keeps the
\* arguments and what the estimator then holds, to compare a later fit of
\* the same arguments with.
Keep ==
    /\ ret.op = "fit"
    /\ ret.err = "none"
    /\ ret' = Idle
    /\ memo' = Some([arg |-> ret.arg, betas_ |-> betas_,
                     intercept_ |-> intercept_, coef_ |-> coef_,
                     degrees_of_freedom |-> degrees_of_freedom,
                     num_predictors |-> num_predictors])
    /\ UNCHANGED attrs

Init ==
    /\ x_ = None
    /\ y_ = None
    /\ betas_ = None
    /\ intercept_ = None
    /\ coef_ = None
    /\ degrees_of_freedom = None
    /\ num_predictors = None
    /\ trained = FALSE
    /\ ret = Idle
    /\ memo = None

FitCall == \E X \in InputMatrices : \E y \in InputVectors(X) : Fit(X, y)

DiagnosticCalls == \E op \in DiagnosticOps : Diagnostic(op)

PredictCalls == \E X \in PredictInputs : PredictCall(X)

CheckCalls == \E X \in PredictInputs : CheckCall(X)

Next ==
    \/ FitCall
    \/ PredictCalls
    \/ CheckCalls
    \/ DiagnosticCalls
    \/ NewInstance
    \/ Return

Spec == Init /\ [][Next]_vars

\* Fits alone, on one instance after another, the caller comparing the
\* results of equal calls.
NextFit == FitCall \/ NewInstance \/ Return \/ Keep

SpecFit == Init /\ [][NextFit]_vars
\* ---------------------------------------------------------------- claims
\* self.x_ without its column of ones: the raw training predictors.
RawX == [ndim |-> 2, d |-> Tup([i \in 1..Len(x_[1]) |-> Tail(x_[1][i])])]

FullTrace ==
    <<"check_degrees_of_freedom", "check_is_matrix_invertible", "inv">>

\* C1: a call of fit that fails validation assigns nothing: every
\* attribute has after the failed call the value it had before it.
C1_FailedFitAssignsNothing ==
    [][(ret.op = "idle" /\ ret'.op = "fit" /\ ret'.err # "none")
          => UNCHANGED attrs]_vars

\* C2: while no fit has succeeded, predict and every diagnostic fail
\* with NotFittedError and with nothing else.
C2_NotFittedError ==
    (~trained /\ ret.op \in DiagnosticOps \cup {"predict"})
        => ret.err = "NotFittedError"

\* C3: fit checks the degrees of freedom first (failing iff n_rows <
\* n_predictors + 2), then the invertibility of X^T X, and inverts only
\* when both checks passed; an input failing both is reported as the
\* degrees-of-freedom error, and a rejected input is never inverted.
C3_ValidationBeforeSolve ==
    ret.op = "fit" =>
        LET Xa == PreprocessInputMatrix(ret.arg[1])
            dofFails == NRows(Xa) < (NCols(Xa) - 1) + 2
            singular == ~IsInvertibleSvd(Gram(Xa))
        IN /\ ret.trace[1] = "check_degrees_of_freedom"
           /\ dofFails =>
                 /\ ret.err = DofMessage
                 /\ ret.trace = <<"check_degrees_of_freedom">>
           /\ (~dofFails /\ singular) =>
                 /\ ret.err = SingularMessage
                 /\ ret.trace = SubSeq(FullTrace, 1, 2)
           /\ (~dofFails /\ ~singular) =>
                 /\ ret.err = "none"
                 /\ ret.trace = FullTrace
           /\ ret.err # "none" =>
                 \A i \in 1..Len(ret.trace) : ret.trace[i] # "inv"

\* A fit of an input that fails both checks has returned.
C3_Witness ==
    /\ ret.op = "fit"
    /\ NRows(PreprocessInputMatrix(ret.arg[1]))
           <= NCols(PreprocessInputMatrix(ret.arg[1]))
    /\ ~IsInvertibleSvd(Gram(PreprocessInputMatrix(ret.arg[1])))
    /\ ret.err = DofMessage

\* C4: predict and every diagnostic leave all the attributes unchanged,
\* and the call made again in the state it leaves returns what it
\* returned.
C4_DiagnosticsLeaveFitState ==
    /\ [][(ret.op = "idle" /\ ret'.op \in DiagnosticOps \cup {"predict"})
             => UNCHANGED attrs]_vars
    /\ [](ret.op \in DiagnosticOps =>
             /\ ret.err = Outcome(ret.op).err
             /\ ret.v = Outcome(ret.op).v)
    /\ [](ret.op = "predict" =>
             /\ ret.err = Predict(ret.arg[1]).err
             /\ ret.v = Predict(ret.arg[1]).v)

\* A diagnostic that goes through predict, the residuals and the
\* covariance matrix has returned a value on a trained estimator.
C4_Witness ==
    /\ trained
    /\ ret.op = "compute_t_statistics"
    /\ ret.err = "none"

\* C5: a successful fit(X, y) leaves the betas_, intercept_, coef_,
\* degrees_of_freedom and num_predictors that an earlier successful
\* fit(X, y) of the same arguments left, whatever calls were made in
\* between and whether on the same instance or on another.
C5_FitIsDeterministic ==
    (ret.op = "fit" /\ ret.err = "none" /\ memo # None) =>
        (memo[1].arg = ret.arg =>
            /\ memo[1].betas_ = betas_
            /\ memo[1].intercept_ = intercept_
            /\ memo[1].coef_ = coef_
            /\ memo[1].degrees_of_freedom = degrees_of_freedom
            /\ memo[1].num_predictors = num_predictors)

\* A successful fit has returned whose arguments are those of an earlier
\* successful fit the caller kept.
C5_Witness ==
    /\ ret.op = "fit"
    /\ ret.err = "none"
    /\ memo # None
    /\ memo[1].arg = ret.arg

\* C6: on a fitted estimator with num_predictors > 0 and
\* degrees_of_freedom > 0, compute_adjusted_r_squared returns at most
\* what compute_r_squared returns.
C6_AdjustedAtMostRSquared ==
    (trained /\ ret.op = "compute_adjusted_r_squared" /\ ret.err = "none") =>
        ((num_predictors[1] > 0 /\ degrees_of_freedom[1] > 0) =>
            QLeq(ret.v[1], ComputeRSquared.v[1]))

ExpectedKeys == <<"beta_x_1", "beta_x_2", "beta_x_3", "beta_x_4">>

\* C7: a successful fit of p predictors leaves p coefficients, and
\* get_params() on a trained estimator of p coefficients returns exactly
\* the p + 1 keys "intercept" (the stored intercept, betas_[0]) and
\* "beta_x_i" for i in 1..p (coef_[i-1], which is betas_[i]).
C7_GetParams ==
    /\ (ret.op = "fit" /\ ret.err = "none") =>
          /\ Len(coef_[1]) = NCols(PreprocessInputMatrix(ret.arg[1])) - 1
          /\ Len(coef_[1]) = num_predictors[1]
    /\ (trained /\ ret.op = "get_params") =>
          LET p == Len(betas_[1]) - 1
          IN /\ ret.err = "none"
             /\ DOMAIN ret.v[1] =
                    {"intercept"} \cup {ExpectedKeys[i] : i \in 1..p}
             /\ Cardinality(DOMAIN ret.v[1]) = p + 1
             /\ ret.v[1]["intercept"] = intercept_[1]
             /\ intercept_[1] = betas_[1][1]
             /\ \A i \in 1..p :
                   /\ ret.v[1][ExpectedKeys[i]] = coef_[1][i]
                   /\ coef_[1][i] = betas_[1][i + 1]

\* get_params() has returned on an estimator of two coefficients.
C7_Witness ==
    /\ trained
    /\ ret.op = "get_params"
    /\ Len(coef_[1]) = 2

\* C8: on an estimator whose betas_ has length k, predict(X) of a 2-D X
\* prepends the column of ones exactly when X has not k columns and uses
\* X as it is exactly when it has k; the matrix multiplied has k columns
\* (and the call returns) exactly when X has k or k - 1 columns; and
\* predict of the raw training predictors and predict of the stored x_
\* of k columns return the same vector.
C8_PredictAugmentation ==
    (betas_ # None /\ ret.op = "predict") =>
        (ret.arg[1].ndim = 2 =>
            LET X == ret.arg[1]
                k == Len(betas_[1])
                c == NCols(ret.arg[1].d)
            IN /\ (ret.trace[1] = "preprocess") <=> (c # k)
               /\ (ret.trace[1] = "as_is") <=> (c = k)
               /\ c # k => ret.trace[2] = c + 1
               /\ (ret.trace[2] = k) <=> (c = k \/ c = k - 1)
               /\ (ret.err = "none") <=> (c = k \/ c = k - 1)
               /\ c = k => ret.v[1] = MatVec(QMat(X.d), betas_[1])
               /\ (NCols(x_[1]) = k /\ X = StoredX) =>
                     (ret.err = "none" /\ ret.v = Predict(RawX).v)
               /\ (NCols(x_[1]) = k /\ X = RawX) =>
                     (ret.err = "none" /\ ret.v = Predict(StoredX).v))

\* predict of the stored training matrix has returned a vector.
C8_Witness ==
    /\ betas_ # None
    /\ ret.op = "predict"
    /\ ret.arg = <<StoredX>>
    /\ NCols(x_[1]) = Len(betas_[1])
    /\ ret.err = "none"

\* C9: after any sequence of fit calls the attributes are consistent:
\* trained only if all of them are set, x_ and y_ are those betas_ was
\* computed from, len(betas_) is the width of x_, degrees_of_freedom is
\* rows(x_) - cols(x_) and num_predictors is cols(x_) - 1.
C9_FitStateConsistent ==
    trained =>
        /\ x_ # None /\ y_ # None /\ betas_ # None
        /\ intercept_ # None /\ coef_ # None
        /\ degrees_of_freedom # None /\ num_predictors # None
        /\ Len(betas_[1]) = NCols(x_[1])
        /\ degrees_of_freedom[1] = NRows(x_[1]) - NCols(x_[1])
        /\ num_predictors[1] = NCols(x_[1]) - 1
        /\ betas_[1] = NormalEquations(x_[1], y_[1])

\* C10: before any fit (betas_ unset) _check_preprocess_is_needed(X)
\* returns true for every matrix X, one of zero columns included.
C10_NeededBeforeFit ==
    (betas_ = None /\ ret.op = "_check_preprocess_is_needed") =>
        (ret.arg[1].ndim = 2 => (ret.err = "none" /\ ret.v = Some(TRUE)))
====
